---- MODULE Spec2Model ----
(***************************************************************************)
(* Student Management System (student_management_system_(final).c).        *)
(*                                                                         *)
(* The record store (students[], studentCount), the CSV persistence file   *)
(* (students.csv) and the menu handlers that act on them.  Text is         *)
(* modelled as sequences of ASCII codes, so that formatting (fprintf) and   *)
(* parsing (strtok / atoi / atof) are real conversions.                    *)
(***************************************************************************)
EXTENDS Integers, Sequences, FiniteSets, TLC

(* ---------------------------- constants ------------------------------- *)

\* The capacity explored for the students array.
MaxStudents == 2

\* #define MAX_STUDENTS 1000, scaled down so that the capacity is reachable.
MAX_STUDENTS == MaxStudents
MAX_NAME == 100
MAX_SUBJECTS == 10

\* Adds are explored while the largest live roll is below MaxRoll.
MaxRoll == 3

\* recompute is explored on 1..MaxSubjectsIn subjects.
MaxSubjectsIn == 3

\* loadAll is explored on files of up to MaxLines data lines.
MaxLines == 2

\* Student.average is a float holding sum/subjectCount.  It is kept exactly,
\* as an integer number of 1/AvgUnit: AvgUnit is a multiple of every
\* subjectCount in 1..MAX_SUBJECTS (2520) and of 100 (the "%.2f" text form),
\* and two such values that differ are further apart than a float ulp, so
\* float comparison and exact comparison agree on them.
AvgUnit == 12600

\* ASCII
COMMA == 44
SEMI == 59
SPACE == 32
NL == 10
CR == 13

\* A NULL char* (strtok never returns an empty token).
NULL == <<>>

\* students.csv does not exist (fopen(DATA_FILE, "r") fails); an existing
\* file is the sequence of its lines.  writable is whether
\* fopen(DATA_FILE, "w") succeeds.
NoFile == [exists |-> FALSE, lines |-> <<>>, writable |-> TRUE]

(* ----------------------------- utilities ------------------------------ *)

Min(a, b) == IF a < b THEN a ELSE b

\* '0'..'9'
IsDigit(c) == c >= 48 /\ c <= 57

IsSpace(c) == c = SPACE \/ (c >= 9 /\ c <= 13)

tolower(c) == IF c >= 65 /\ c <= 90 THEN c + 32 ELSE c

\* strncpy(dst, src, n) into a zero-filled (or longer, NUL-terminated) buffer
strncpy(src, n) == SubSeq(src, 1, Min(Len(src), n))

\* sanitizeName leaving the name as it is
sanitizeNameKeepsCommas(name) == name

sanitizeName(name) ==
    [i \in 1..Len(name) |-> IF name[i] = COMMA THEN SPACE ELSE name[i]]

containsIgnoreCase(haystack, needle) ==
    IF needle = <<>> THEN TRUE
    ELSE \E p \in 1..Len(haystack) :
            /\ p + Len(needle) - 1 <= Len(haystack)
            /\ \A i \in 1..Len(needle) :
                  tolower(haystack[p + i - 1]) = tolower(needle[i])

\* strcasecmp: difference of the first pair of lowered bytes that differ,
\* the terminating NUL (0) included.
RECURSIVE strcasecmp(_, _)
strcasecmp(a, b) ==
    LET ca == IF a = <<>> THEN 0 ELSE tolower(Head(a))
        cb == IF b = <<>> THEN 0 ELSE tolower(Head(b))
    IN  IF ca # cb THEN ca - cb
        ELSE IF ca = 0 THEN 0
        ELSE strcasecmp(Tail(a), Tail(b))

\* calculateGrade with the first threshold exclusive
calculateGradeExclusive(avg) ==
    IF avg > 90 * AvgUnit THEN 65
    ELSE IF avg >= 75 * AvgUnit THEN 66
    ELSE IF avg >= 60 * AvgUnit THEN 67
    ELSE IF avg >= 50 * AvgUnit THEN 68
    ELSE 70

calculateGrade(avg) ==
    IF avg >= 90 * AvgUnit THEN 65          \* 'A'
    ELSE IF avg >= 75 * AvgUnit THEN 66     \* 'B'
    ELSE IF avg >= 60 * AvgUnit THEN 67     \* 'C'
    ELSE IF avg >= 50 * AvgUnit THEN 68     \* 'D'
    ELSE 70                                 \* 'F'

RECURSIVE SumMarks(_, _)
SumMarks(marks, n) == IF n = 0 THEN 0 ELSE marks[n] + SumMarks(marks, n - 1)

\* recompute that sets the average and leaves the grade as it was
recomputeAverageOnly(s) ==
    LET sum == SumMarks(s.marks, s.subjectCount)
        average == (sum * AvgUnit) \div s.subjectCount
    IN  [s EXCEPT !.average = average]

recompute(s) ==
    LET sum == SumMarks(s.marks, s.subjectCount)
        average == (sum * AvgUnit) \div s.subjectCount
    IN  [s EXCEPT !.average = average, !.grade = calculateGrade(average)]

\* findMaxRoll taking the number of records for the largest roll
findMaxRollByCount(studs) == Len(studs)

\* findMaxRoll stopping below the first roll that no record holds
findMaxRollFirstGap(studs) ==
    LET R == {studs[i].roll : i \in 1..Len(studs)}
    IN  (CHOOSE m \in 1..(Len(studs) + 1) :
            m \notin R /\ \A k \in 1..(m - 1) : k \in R) - 1

findMaxRoll(studs) ==
    LET R == {studs[i].roll : i \in 1..Len(studs)} \cup {0}
    IN  CHOOSE m \in R : \A r \in R : r <= m

\* findIndexByRoll answering index 0 when no record has the roll
findIndexByRollOrFirst(studs, roll) ==
    LET I == {i \in 1..Len(studs) : studs[i].roll = roll}
    IN  IF I = {} THEN 0 ELSE (CHOOSE i \in I : \A j \in I : i <= j) - 1

\* 0-based index of the first record with that roll, or -1
findIndexByRoll(studs, roll) ==
    LET I == {i \in 1..Len(studs) : studs[i].roll = roll}
    IN  IF I = {} THEN -1 ELSE (CHOOSE i \in I : \A j \in I : i <= j) - 1

\* Student s = {0};
ZeroStudent ==
    [roll |-> 0, name |-> <<>>, subjectCount |-> 0,
     marks |-> [j \in 1..MAX_SUBJECTS |-> 0], average |-> 0, grade |-> 0]

(* ------------------------ persistence (CSV) --------------------------- *)

\* "%d"
RECURSIVE Digits(_)
Digits(n) == IF n < 10 THEN <<48 + n>>
             ELSE Append(Digits(n \div 10), 48 + (n % 10))

FmtInt(n) == IF n < 0 THEN <<45>> \o Digits(-n) ELSE Digits(n)

\* "%.2f" of a non-negative average: the value rounded to hundredths (ties
\* to even, as printf rounds the exactly representable x.xx5 values).
FmtAvg(avg) ==
    LET u == AvgUnit \div 100
        q == avg \div u
        r == avg % u
        h == IF 2 * r > u \/ (2 * r = u /\ q % 2 = 1) THEN q + 1 ELSE q
    IN  Digits(h \div 100) \o <<46, 48 + ((h \div 10) % 10), 48 + (h % 10)>>

\* "roll,name,subjectCount,marks,average,grade\n"
HeaderLine ==
    <<114, 111, 108, 108, 44, 110, 97, 109, 101, 44, 115, 117, 98,
       106, 101, 99, 116, 67, 111, 117, 110, 116, 44, 109, 97, 114,
       107, 115, 44, 97, 118, 101, 114, 97, 103, 101, 44, 103, 114, 97,
       100, 101, 10>>

\* "roll,"
HeaderPrefix == <<114, 111, 108, 108, 44>>

RECURSIVE FmtMarks(_, _, _)
FmtMarks(marks, j, n) ==
    IF j > n THEN <<>>
    ELSE FmtInt(marks[j]) \o (IF j # n THEN <<SEMI>> ELSE <<>>)
         \o FmtMarks(marks, j + 1, n)

\* the text saveAll writes for one student (lines 147-153)
FmtStudent(s) ==
    FmtInt(s.roll) \o <<COMMA>> \o s.name \o <<COMMA>>
      \o FmtInt(s.subjectCount) \o <<COMMA>>
      \o FmtMarks(s.marks, 1, s.subjectCount)
      \o <<COMMA>> \o FmtAvg(s.average) \o <<COMMA, s.grade, NL>>

\* saveAll writing the file although fopen(DATA_FILE, "w") failed
saveAllAlways(f, studs, canWrite) ==
    [exists |-> TRUE,
     lines |-> <<HeaderLine>>
                 \o [i \in 1..Len(studs) |-> FmtStudent(studs[i])],
     writable |-> f.writable]

\* The file saveAll leaves: a sequence of lines.  canWrite is whether
\* fopen(DATA_FILE, "w") succeeds; when it fails the file keeps its content.
saveAll(f, studs, canWrite) ==
    IF ~canWrite THEN f
    ELSE [exists |-> TRUE,
          lines |-> <<HeaderLine>>
                      \o [i \in 1..Len(studs) |-> FmtStudent(studs[i])],
          writable |-> f.writable]

RECURSIVE SkipSpace(_)
SkipSpace(s) == IF s # <<>> /\ IsSpace(Head(s)) THEN SkipSpace(Tail(s)) ELSE s

\* value of the leading decimal digits of s, continuing from acc
RECURSIVE DigitsVal(_, _)
DigitsVal(s, acc) ==
    IF s # <<>> /\ IsDigit(Head(s))
    THEN DigitsVal(Tail(s), acc * 10 + (Head(s) - 48))
    ELSE [val |-> acc, rest |-> s]

RECURSIVE Pow10(_)
Pow10(k) == IF k = 0 THEN 1 ELSE 10 * Pow10(k - 1)

atoi(s) ==
    LET t == SkipSpace(s)
        neg == t # <<>> /\ Head(t) = 45
        u == IF t # <<>> /\ Head(t) \in {43, 45} THEN Tail(t) ELSE t
        v == DigitsVal(u, 0).val
    IN  IF neg THEN -v ELSE v

\* (float)atof(s) in units of 1/AvgUnit: sign, digits, '.', digits.  Exact
\* for up to two decimals (what "%.2f" writes); further decimals round to
\* the nearest unit.  Exponents are not written by saveAll and not parsed.
atof(s) ==
    LET t == SkipSpace(s)
        neg == t # <<>> /\ Head(t) = 45
        u == IF t # <<>> /\ Head(t) \in {43, 45} THEN Tail(t) ELSE t
        ip == DigitsVal(u, 0)
        hasDot == ip.rest # <<>> /\ Head(ip.rest) = 46
        fp == IF hasDot THEN DigitsVal(Tail(ip.rest), 0)
              ELSE [val |-> 0, rest |-> ip.rest]
        k == IF hasDot THEN Len(Tail(ip.rest)) - Len(fp.rest) ELSE 0
        v == ip.val * AvgUnit + (2 * fp.val * AvgUnit + Pow10(k)) \div (2 * Pow10(k))
    IN  IF neg THEN -v ELSE v

RECURSIVE SkipDelim(_, _)
SkipDelim(s, d) ==
    IF s # <<>> /\ Head(s) = d THEN SkipDelim(Tail(s), d) ELSE s

RECURSIVE TokLen(_, _)
TokLen(s, d) ==
    IF s = <<>> \/ Head(s) = d THEN 0 ELSE 1 + TokLen(Tail(s), d)

\* strtok with one delimiter.  s is the string to scan: the argument of a
\* first call, or the saved position (olds) of the previous call for
\* strtok(NULL, d).  Returns the token (NULL when none is left) and the new
\* saved position.  strtok has ONE saved position, shared by all callers.
strtok(s, d) ==
    LET t == SkipDelim(s, d)
        n == TokLen(t, d)
    IN  IF t = <<>> THEN [tok |-> NULL, olds |-> <<>>]
        ELSE [tok |-> SubSeq(t, 1, n), olds |-> SubSeq(t, n + 2, Len(t))]

\* lines 213-217: while (mtok && idx < s.subjectCount) { ... }
\* m is the result of the last strtok(.., ";"), idx is 0-based.
RECURSIVE MarksLoop(_, _, _, _)
MarksLoop(m, idx, marks, count) ==
    IF m.tok # NULL /\ idx < count
    THEN MarksLoop(strtok(m.olds, SEMI), idx + 1,
                   [marks EXCEPT ![idx + 1] = atoi(m.tok)], count)
    ELSE [idx |-> idx, marks |-> marks, olds |-> m.olds]

\* One iteration of the while loop of loadAll (lines 181-231) on one line
\* as fgets returns it: the student to store, or ok = FALSE for `continue`.
ParseLine(line) ==
    LET ln == Len(line)
        p  == IF ln > 0 /\ (line[ln] = NL \/ line[ln] = CR)
              THEN SubSeq(line, 1, ln - 1) ELSE line
        skip == [ok |-> FALSE, s |-> ZeroStudent]
        t1 == strtok(p, COMMA)
        t2 == strtok(t1.olds, COMMA)
        t3 == strtok(t2.olds, COMMA)
        subjectCount == atoi(t3.tok)
        t4 == strtok(t3.olds, COMMA)
        tmp == strncpy(t4.tok, 511)
        ml == MarksLoop(strtok(tmp, SEMI), 0, ZeroStudent.marks, subjectCount)
        \* strtok(NULL, ",") now continues from the position the marks
        \* loop left inside tmp, not from the rest of the line
        t5 == strtok(ml.olds, COMMA)
        t6 == strtok(t5.olds, COMMA)
    IN  IF t1.tok = NULL THEN skip
        ELSE IF t2.tok = NULL THEN skip
        ELSE IF t3.tok = NULL THEN skip
        ELSE IF subjectCount < 1 \/ subjectCount > MAX_SUBJECTS THEN skip
        ELSE IF t4.tok = NULL THEN skip
        ELSE IF ml.idx # subjectCount THEN skip
        ELSE IF t5.tok = NULL THEN skip
        ELSE IF t6.tok = NULL THEN skip
        ELSE [ok |-> TRUE,
              s |-> [roll |-> atoi(t1.tok),
                     name |-> strncpy(t2.tok, MAX_NAME - 1),
                     subjectCount |-> subjectCount,
                     marks |-> ml.marks,
                     average |-> atof(t5.tok),
                     grade |-> t6.tok[1]]]

\* lines 178-232: while (fgets(..) && studentCount < MAX_STUDENTS)
RECURSIVE LoadLines(_, _, _)
LoadLines(lines, i, acc) ==
    IF i > Len(lines) \/ Len(acc) >= MAX_STUDENTS THEN acc
    ELSE LET r == ParseLine(lines[i])
         IN  LoadLines(lines, i + 1, IF r.ok THEN Append(acc, r.s) ELSE acc)

\* The students array after loadAll, given the file and the array before.
loadAll(f, studs) ==
    IF ~f.exists THEN <<>>
    ELSE IF f.lines = <<>> THEN studs
    ELSE LET isHeader == /\ Len(f.lines[1]) >= 5
                         /\ SubSeq(f.lines[1], 1, 5) = HeaderPrefix
         IN  LoadLines(f.lines, IF isHeader THEN 2 ELSE 1, <<>>)

(* ------------------------------ inputs -------------------------------- *)

\* What the user types at a prompt for text (safeGets): "", "a,", "B"
NameInputs == { <<>>, <<97, COMMA>>, <<66>> }

\* What the user types at "Enter number of subjects": the attempts, in order
CountInputs == { <<1>>, <<11, 3>> }

\* What the user types at the "Enter marks" prompts: the attempts, in order
MarkInputs == { <<101>>, <<101, 100>>, <<100, 0, 0>> }

\* Search queries: "", "b"
QueryInputs == { <<>>, <<98>> }

\* Answers to "(y/n)": 'y', 'Y', 'n'
ConfirmInputs == { 121, 89, 110 }

RollInputs == 1..MaxRoll

\* Lines of students.csv that loadAll is tried on.
\* well-formed: roll 1, one score
\* "1,B,1,90,90.00,A\n"
LineB ==
    <<49, 44, 66, 44, 49, 44, 57, 48, 44, 57, 48, 46, 48, 48, 44, 65, 10>>

\* well-formed: roll 2, three scores
\* "2,a ,3,100;0;0,33.33,F\n"
LineA ==
    <<50, 44, 97, 32, 44, 51, 44, 49, 48, 48, 59, 48, 59, 48, 44,
      51, 51, 46, 51, 51, 44, 70, 10>>

\* malformed: the average and grade fields are missing
\* "3,C,1,90\n"
LineNoGrade ==
    <<51, 44, 67, 44, 49, 44, 57, 48, 10>>

\* malformed: subjectCount 11 is outside 1..MAX_SUBJECTS
\* "4,D,11,90,90.00,A\n"
LineCount11 ==
    <<52, 44, 68, 44, 49, 49, 44, 57, 48, 44, 57, 48, 46, 48, 48, 44, 65, 10>>

\* malformed: subjectCount 2, one score
\* "5,E,2,90,90.00,A\n"
LineCount2 ==
    <<53, 44, 69, 44, 50, 44, 57, 48, 44, 57, 48, 46, 48, 48, 44, 65, 10>>

LineInputs == { LineB, LineA, LineNoGrade, LineCount11, LineCount2 }

\* The files loadAll is tried on: no file, or up to MaxLines of LineInputs,
\* with the header line or without it.
LoadFiles ==
    {NoFile} \cup
    { [exists |-> TRUE, lines |-> h \o body, writable |-> TRUE] :
        h \in {<<>>, <<HeaderLine>>},
        body \in UNION { [1..k -> LineInputs] : k \in 0..MaxLines } }

\* The score sequences of the records statistics are tried on: grades
\* B (84.33), F (45.00), A, C, D
StatScores ==
    { <<85, 90, 78>>, <<40, 45, 50>>, <<95>>, <<65>>, <<55>> }

\* Marks recompute is tried on: around every grade threshold
GradeMarks == {0, 49, 50, 51, 59, 60, 61, 74, 75, 76, 89, 90, 91, 100}

\* inputIntInRange accepting whatever number is typed
ValidIntsUnchecked(tries, min, max) == tries

\* The attempts inputIntInRange accepts, in order; it returns the first and
\* re-prompts on every other one.
ValidInts(tries, min, max) == SelectSeq(tries, LAMBDA x : x >= min /\ x <= max)

inputIntInRange(tries, min, max) == Head(ValidInts(tries, min, max))

\* for (i < subjectCount) marks[i] = inputIntInRange(prompt, 0, 100);
\* entries at and beyond subjectCount keep what they held
ReadMarks(marks, tries, count) ==
    [j \in 1..MAX_SUBJECTS |->
        IF j <= count THEN ValidInts(tries, 0, 100)[j] ELSE marks[j]]

\* A handler returns only once every prompt got a valid answer: the typed
\* attempts <<count attempts, mark attempts>> that answer exactly the prompts
\* asked.
ScoreInputs ==
    { in \in CountInputs \X MarkInputs :
        /\ ValidInts(in[1], 1, MAX_SUBJECTS) # <<>>
        /\ Len(ValidInts(in[2], 0, 100))
             = inputIntInRange(in[1], 1, MAX_SUBJECTS) }

(* ------------------------------- state -------------------------------- *)

VARIABLES
    students,   \* students[0 .. studentCount-1], as a sequence
    file,       \* students.csv
    out,        \* what the last handler reported
    deleted,    \* history: the rolls of the records deleted so far
    rec,        \* a Student that recompute is applied to
    pc          \* "menu": in the menu loop; "exited": the process has ended

vars == <<students, file, out, deleted, rec, pc>>

studentCount == Len(students)

\* A handler's report: the handler, the message it printed, the roll and
\* the menu choice it was given (0: none), the search query and the table
\* rows it printed, (history) whether a sort directly followed a sort by
\* the inverse comparator, and the summary it printed: the indices of the
\* topper and the lowest (-1: none) and the counts of grades A, B, C, D, F.
Report(op, msg, roll, ch) ==
    [op |-> op, msg |-> msg, roll |-> roll, ch |-> ch,
     q |-> <<>>, rows |-> <<>>, inv |-> FALSE,
     topIdx |-> -1, lowIdx |-> -1, grades |-> <<0, 0, 0, 0, 0>>]

\* main: loadAll() with no students.csv, then menu()
Init ==
    /\ students = <<>>
    /\ file = NoFile
    /\ out = Report("main", "Loaded", 0, 0)
    /\ deleted = {}
    /\ rec = ZeroStudent
    /\ pc = "menu"

(* ------------------------------ handlers ------------------------------ *)

\* addStudent refusing only when studentCount > MAX_STUDENTS
addStudentOffByOne ==
    /\ pc = "menu"
    /\ IF studentCount > MAX_STUDENTS
       THEN /\ out' = Report("add", "LimitReached", 0, 0)
            /\ UNCHANGED <<students, file>>
       ELSE \E buf \in NameInputs :
            IF Len(buf) = 0
            THEN /\ out' = Report("add", "NameEmpty", 0, 0)
                 /\ UNCHANGED <<students, file>>
            ELSE \E in \in ScoreInputs :
                 /\ findMaxRoll(students) < MaxRoll
                 /\ LET count == inputIntInRange(in[1], 1, MAX_SUBJECTS)
                        s == recompute(
                               [ZeroStudent EXCEPT
                                  !.roll = findMaxRoll(students) + 1,
                                  !.name = strncpy(sanitizeName(buf),
                                                   MAX_NAME - 1),
                                  !.subjectCount = count,
                                  !.marks = ReadMarks(@, in[2], count)])
                    IN  /\ students' = Append(students, s)
                        /\ file' = saveAll(file, students', file.writable)
                        /\ out' = Report("add", "Added", s.roll, 0)
    /\ UNCHANGED <<deleted, rec, pc>>

addStudent ==
    /\ pc = "menu"
    /\ IF studentCount >= MAX_STUDENTS
       THEN /\ out' = Report("add", "LimitReached", 0, 0)
            /\ UNCHANGED <<students, file>>
       ELSE \E buf \in NameInputs :
            IF Len(buf) = 0
            THEN /\ out' = Report("add", "NameEmpty", 0, 0)
                 /\ UNCHANGED <<students, file>>
            ELSE \E in \in ScoreInputs :
                 /\ findMaxRoll(students) < MaxRoll
                 /\ LET count == inputIntInRange(in[1], 1, MAX_SUBJECTS)
                        s == recompute(
                               [ZeroStudent EXCEPT
                                  !.roll = findMaxRoll(students) + 1,
                                  !.name = strncpy(sanitizeName(buf),
                                                   MAX_NAME - 1),
                                  !.subjectCount = count,
                                  !.marks = ReadMarks(@, in[2], count)])
                    IN  /\ students' = Append(students, s)
                        /\ file' = saveAll(file, students', file.writable)
                        /\ out' = Report("add", "Added", s.roll, 0)
    /\ UNCHANGED <<deleted, rec, pc>>

\* searchByName without the empty-query return
SearchRowsAnyQuery(studs, q) ==
    LET rows == SelectSeq(studs, LAMBDA s : containsIgnoreCase(s.name, q))
    IN  [msg |-> IF Len(rows) = 0 THEN "NoMatches" ELSE "Rows", rows |-> rows]

\* searchByName once the query is read (lines 319-329): the message and
\* the rows printed
SearchRows(studs, q) ==
    IF Len(q) = 0 THEN [msg |-> "QueryEmpty", rows |-> <<>>]
    ELSE LET rows == SelectSeq(studs, LAMBDA s : containsIgnoreCase(s.name, q))
         IN  [msg |-> IF Len(rows) = 0 THEN "NoMatches" ELSE "Rows",
              rows |-> rows]

searchByName ==
    /\ pc = "menu"
    /\ IF studentCount = 0
       THEN out' = Report("search", "NoRecords", 0, 0)
       ELSE \E q \in QueryInputs :
            out' = [Report("search", SearchRows(students, q).msg, 0, 0)
                      EXCEPT !.q = q, !.rows = SearchRows(students, q).rows]
    /\ UNCHANGED <<students, file, deleted, rec, pc>>

\* updateStudent with s = &students[0] instead of &students[idx]
updateStudentFirstRecord ==
    /\ pc = "menu"
    /\ IF studentCount = 0
       THEN /\ out' = Report("update", "NoRecords", 0, 0)
            /\ UNCHANGED <<students, file>>
       ELSE \E roll \in RollInputs :
            LET idx == findIndexByRoll(students, roll)
            IN  IF idx < 0
                THEN /\ out' = Report("update", "NoStudent", roll, 0)
                     /\ UNCHANGED <<students, file>>
                ELSE \E ch \in 1..3 :
                     IF ch = 1
                     THEN \E buf \in NameInputs :
                          IF Len(buf) = 0
                          THEN /\ out' = Report("update", "NameUnchanged", roll, ch)
                               /\ UNCHANGED <<students, file>>
                          ELSE /\ students' = [students EXCEPT ![1] =
                                     recompute([@ EXCEPT !.name =
                                        strncpy(sanitizeName(buf),
                                                MAX_NAME - 1)])]
                               /\ file' = saveAll(file, students', file.writable)
                               /\ out' = Report("update", "Updated", roll, ch)
                     ELSE IF ch = 2
                     THEN \E in \in ScoreInputs :
                          LET count == inputIntInRange(in[1], 1, MAX_SUBJECTS)
                          IN  /\ students' = [students EXCEPT ![1] =
                                    recompute(recompute([@ EXCEPT
                                       !.subjectCount = count,
                                       !.marks = ReadMarks(@, in[2], count)]))]
                              /\ file' = saveAll(file, students', file.writable)
                              /\ out' = Report("update", "Updated", roll, ch)
                     ELSE /\ out' = Report("update", "Cancelled", roll, ch)
                          /\ UNCHANGED <<students, file>>
    /\ UNCHANGED <<deleted, rec, pc>>

updateStudent ==
    /\ pc = "menu"
    /\ IF studentCount = 0
       THEN /\ out' = Report("update", "NoRecords", 0, 0)
            /\ UNCHANGED <<students, file>>
       ELSE \E roll \in RollInputs :
            LET idx == findIndexByRoll(students, roll)
            IN  IF idx < 0
                THEN /\ out' = Report("update", "NoStudent", roll, 0)
                     /\ UNCHANGED <<students, file>>
                ELSE \E ch \in 1..3 :
                     IF ch = 1
                     THEN \E buf \in NameInputs :
                          IF Len(buf) = 0
                          THEN /\ out' = Report("update", "NameUnchanged", roll, ch)
                               /\ UNCHANGED <<students, file>>
                          ELSE /\ students' = [students EXCEPT ![idx + 1] =
                                     recompute([@ EXCEPT !.name =
                                        strncpy(sanitizeName(buf),
                                                MAX_NAME - 1)])]
                               /\ file' = saveAll(file, students', file.writable)
                               /\ out' = Report("update", "Updated", roll, ch)
                     ELSE IF ch = 2
                     THEN \E in \in ScoreInputs :
                          LET count == inputIntInRange(in[1], 1, MAX_SUBJECTS)
                          IN  /\ students' = [students EXCEPT ![idx + 1] =
                                    recompute(recompute([@ EXCEPT
                                       !.subjectCount = count,
                                       !.marks = ReadMarks(@, in[2], count)]))]
                              /\ file' = saveAll(file, students', file.writable)
                              /\ out' = Report("update", "Updated", roll, ch)
                     ELSE /\ out' = Report("update", "Cancelled", roll, ch)
                          /\ UNCHANGED <<students, file>>
    /\ UNCHANGED <<deleted, rec, pc>>

\* deleteStudent whose shift loop starts one entry late (i = idx + 1)
deleteStudentOpLateShift(track) ==
    /\ pc = "menu"
    /\ IF studentCount = 0
       THEN /\ out' = Report("delete", "NoRecords", 0, 0)
            /\ UNCHANGED <<students, file, deleted>>
       ELSE \E roll \in RollInputs :
            LET idx == findIndexByRoll(students, roll)
            IN  IF idx < 0
                THEN /\ out' = Report("delete", "NoStudent", roll, 0)
                     /\ UNCHANGED <<students, file, deleted>>
                ELSE \E c \in ConfirmInputs :
                     IF c # 121 /\ c # 89
                     THEN /\ out' = Report("delete", "Cancelled", roll, 0)
                          /\ UNCHANGED <<students, file, deleted>>
                     ELSE /\ students' = [i \in 1..(studentCount - 1) |->
                                             IF i < idx + 2 THEN students[i]
                                             ELSE students[i + 1]]
                          /\ file' = saveAll(file, students', file.writable)
                          /\ deleted' = IF track THEN deleted \cup {roll}
                                         ELSE deleted
                          /\ out' = Report("delete", "Deleted", roll, 0)
    /\ UNCHANGED <<rec, pc>>

\* deleteStudent; track says whether the history variable is kept
deleteStudentOp(track) ==
    /\ pc = "menu"
    /\ IF studentCount = 0
       THEN /\ out' = Report("delete", "NoRecords", 0, 0)
            /\ UNCHANGED <<students, file, deleted>>
       ELSE \E roll \in RollInputs :
            LET idx == findIndexByRoll(students, roll)
            IN  IF idx < 0
                THEN /\ out' = Report("delete", "NoStudent", roll, 0)
                     /\ UNCHANGED <<students, file, deleted>>
                ELSE \E c \in ConfirmInputs :
                     IF c # 121 /\ c # 89
                     THEN /\ out' = Report("delete", "Cancelled", roll, 0)
                          /\ UNCHANGED <<students, file, deleted>>
                     ELSE /\ students' = [i \in 1..(studentCount - 1) |->
                                             IF i < idx + 1 THEN students[i]
                                             ELSE students[i + 1]]
                          /\ file' = saveAll(file, students', file.writable)
                          /\ deleted' = IF track THEN deleted \cup {roll}
                                         ELSE deleted
                          /\ out' = Report("delete", "Deleted", roll, 0)
    /\ UNCHANGED <<rec, pc>>

deleteStudent == deleteStudentOp(FALSE)

deleteStudentTracked == deleteStudentOp(TRUE)

(* ------------------------------- sorting ------------------------------ *)

cmpRollAsc(x, y) == x.roll - y.roll
\* cmpRollDesc without the negation
cmpRollDescSameSign(x, y) == cmpRollAsc(x, y)

cmpRollDesc(x, y) == -cmpRollAsc(x, y)

cmpNameAsc(x, y) == strcasecmp(x.name, y.name)
cmpNameDesc(x, y) == -cmpNameAsc(x, y)

cmpAvgAsc(x, y) ==
    IF x.average < y.average THEN -1
    ELSE IF x.average > y.average THEN 1
    ELSE 0
cmpAvgDesc(x, y) == -cmpAvgAsc(x, y)

\* the comparator sortMenu passes to qsort for menu choice ch
cmp(ch, x, y) ==
    CASE ch = 1 -> cmpRollAsc(x, y)
      [] ch = 2 -> cmpRollDesc(x, y)
      [] ch = 3 -> cmpNameAsc(x, y)
      [] ch = 4 -> cmpNameDesc(x, y)
      [] ch = 5 -> cmpAvgAsc(x, y)
      [] ch = 6 -> cmpAvgDesc(x, y)

\* qsort: some rearrangement of the array that is ordered by the comparator;
\* which one, among elements that compare equal, is unspecified.
qsort(studs, ch) ==
    LET n == Len(studs)
        P == {f \in [1..n -> 1..n] : \A i, j \in 1..n : i # j => f[i] # f[j]}
    IN  { [i \in 1..n |-> studs[f[i]]] : f \in
            {g \in P : \A i, j \in 1..n :
                          i < j => cmp(ch, studs[g[i]], studs[g[j]]) <= 0} }

\* menu choices 1/2, 3/4, 5/6 sort by the same key in opposite directions
Inverse(c1, c2) == c1 # c2 /\ (c1 + 1) \div 2 = (c2 + 1) \div 2

\* sortMenu returning after qsort, without saveAll
sortMenuNoSave ==
    /\ pc = "menu"
    /\ IF studentCount = 0
       THEN /\ out' = Report("sort", "NoRecords", 0, 0)
            /\ UNCHANGED <<students, file>>
       ELSE \E ch \in 1..6 :
            /\ students' \in qsort(students, ch)
            /\ file' = file
            /\ out' = [Report("sort", "Sorted", 0, ch) EXCEPT
                         !.inv = out.msg = "Sorted" /\ Inverse(out.ch, ch)]
    /\ UNCHANGED <<deleted, rec, pc>>

sortMenu ==
    /\ pc = "menu"
    /\ IF studentCount = 0
       THEN /\ out' = Report("sort", "NoRecords", 0, 0)
            /\ UNCHANGED <<students, file>>
       ELSE \E ch \in 1..6 :
            /\ students' \in qsort(students, ch)
            /\ file' = saveAll(file, students', file.writable)
            /\ out' = [Report("sort", "Sorted", 0, ch) EXCEPT
                         !.inv = out.msg = "Sorted" /\ Inverse(out.ch, ch)]
    /\ UNCHANGED <<deleted, rec, pc>>

(* ----------------------------- statistics ----------------------------- *)

\* What the scans of showStats and exportReport start from (lines 437-438,
\* 482): topIdx = 0, lowIdx = 0, gradeA..gradeF = 0.
ScanStart == [topIdx |-> 0, lowIdx |-> 0, grades |-> <<0, 0, 0, 0, 0>>]

\* the switch of showStats (lines 444-450): which counter a grade adds to
GradeSlot(g) ==
    CASE g = 65 -> 1
      [] g = 66 -> 2
      [] g = 67 -> 3
      [] g = 68 -> 4
      [] OTHER -> 5

\* the loop of showStats with a switch that has no case 'D'
RECURSIVE showStatsScanNoD(_, _, _)
showStatsScanNoD(studs, i, acc) ==
    IF i >= Len(studs) THEN acc
    ELSE LET s == studs[i + 1]
             k == IF s.grade = 68 THEN 5 ELSE GradeSlot(s.grade)
         IN  showStatsScanNoD(studs, i + 1,
               [topIdx |-> IF s.average > studs[acc.topIdx + 1].average
                           THEN i ELSE acc.topIdx,
                lowIdx |-> IF s.average < studs[acc.lowIdx + 1].average
                           THEN i ELSE acc.lowIdx,
                grades |-> [acc.grades EXCEPT ![k] = @ + 1]])

\* the loop of showStats (lines 440-451) from index i (0-based) on
RECURSIVE showStatsScan(_, _, _)
showStatsScan(studs, i, acc) ==
    IF i >= Len(studs) THEN acc
    ELSE LET s == studs[i + 1]
         IN  showStatsScan(studs, i + 1,
               [topIdx |-> IF s.average > studs[acc.topIdx + 1].average
                           THEN i ELSE acc.topIdx,
                lowIdx |-> IF s.average < studs[acc.lowIdx + 1].average
                           THEN i ELSE acc.lowIdx,
                grades |-> [acc.grades EXCEPT ![GradeSlot(s.grade)] = @ + 1]])

\* the loop of exportReport taking the last of equal averages
RECURSIVE exportReportScanLastWins(_, _, _)
exportReportScanLastWins(studs, i, acc) ==
    IF i >= Len(studs) THEN acc
    ELSE LET s == studs[i + 1]
         IN  exportReportScanLastWins(studs, i + 1,
               [acc EXCEPT
                  !.topIdx = IF s.average >= studs[acc.topIdx + 1].average
                             THEN i ELSE acc.topIdx,
                  !.lowIdx = IF s.average <= studs[acc.lowIdx + 1].average
                             THEN i ELSE acc.lowIdx])

\* the loop of exportReport (lines 483-487) from index i (0-based) on
RECURSIVE exportReportScan(_, _, _)
exportReportScan(studs, i, acc) ==
    IF i >= Len(studs) THEN acc
    ELSE LET s == studs[i + 1]
         IN  exportReportScan(studs, i + 1,
               [acc EXCEPT
                  !.topIdx = IF s.average > studs[acc.topIdx + 1].average
                             THEN i ELSE acc.topIdx,
                  !.lowIdx = IF s.average < studs[acc.lowIdx + 1].average
                             THEN i ELSE acc.lowIdx])

\* The class average line is printed from a float sum and is not kept here.
showStats ==
    /\ pc = "menu"
    /\ IF studentCount = 0
       THEN out' = Report("stats", "NoRecords", 0, 0)
       ELSE LET r == showStatsScan(students, 0, ScanStart)
            IN  out' = [Report("stats", "Stats", 0, 0) EXCEPT
                          !.topIdx = r.topIdx, !.lowIdx = r.lowIdx,
                          !.grades = r.grades]
    /\ UNCHANGED <<students, file, deleted, rec, pc>>

\* exportReport: the table rows and the summary block written to report.txt,
\* or nothing when fopen(REPORT_FILE, "w") fails
exportReport ==
    /\ pc = "menu"
    /\ IF studentCount = 0
       THEN out' = Report("export", "NoRecords", 0, 0)
       ELSE \E opened \in BOOLEAN :
            IF ~opened
            THEN out' = Report("export", "CannotWrite", 0, 0)
            ELSE LET r == exportReportScan(students, 0, ScanStart)
                 IN  out' = [Report("export", "Exported", 0, 0) EXCEPT
                               !.rows = students,
                               !.topIdx = r.topIdx, !.lowIdx = r.lowIdx]
    /\ UNCHANGED <<students, file, deleted, rec, pc>>

(* --------------------------- process life ----------------------------- *)

\* menu choice 0: saveAll(); return; then main returns
menuExit ==
    /\ pc = "menu"
    /\ file' = saveAll(file, students, file.writable)
    /\ out' = Report("exit", "Saved", 0, 0)
    /\ pc' = "exited"
    /\ UNCHANGED <<students, deleted, rec>>

\* the program is started again: main calls loadAll() on an empty array
main ==
    /\ pc = "exited"
    /\ students' = loadAll(file, <<>>)
    /\ out' = Report("main", "Loaded", 0, 0)
    /\ pc' = "menu"
    /\ UNCHANGED <<file, deleted, rec>>

(* --------------------------- specifications --------------------------- *)

\* one run of the program, from an empty store
Next ==
    \/ addStudent
    \/ searchByName
    \/ updateStudent
    \/ deleteStudent
    \/ sortMenu

Spec == Init /\ [][Next]_vars

\* adds and deletes only, with the history of deleted rolls
NextRolls == addStudent \/ deleteStudentTracked

SpecRolls == Init /\ [][NextRolls]_vars

\* recompute on its own, over score sequences of 1..MaxSubjectsIn subjects;
\* the entry after the last score is 0 (a new record) or what an earlier,
\* longer score sequence left there (updateStudent)
InitGrade ==
    /\ students = <<>>
    /\ file = NoFile
    /\ out = Report("main", "Loaded", 0, 0)
    /\ deleted = {}
    /\ pc = "menu"
    /\ \E n \in 1..MaxSubjectsIn : \E m \in [1..n -> GradeMarks] :
       \E old \in {0, 100} :
          rec = [ZeroStudent EXCEPT
                   !.subjectCount = n,
                   !.marks = [j \in 1..MAX_SUBJECTS |->
                                 IF j <= n THEN m[j]
                                 ELSE IF j = n + 1 THEN old ELSE 0]]

Recompute ==
    /\ rec.grade = 0
    /\ rec' = recompute(rec)
    /\ UNCHANGED <<students, file, out, deleted, pc>>

NextGrade == Recompute

SpecGrade == InitGrade /\ [][NextGrade]_vars

\* statistics and report on a store that i adds have built: rolls 1..i,
\* names "A", "B", .., any of StatScores each
InitStats ==
    /\ \E n \in 0..MAX_STUDENTS : \E sc \in [1..n -> StatScores] :
          students =
            [i \in 1..n |->
               recompute([ZeroStudent EXCEPT
                            !.roll = i,
                            !.name = <<64 + i>>,
                            !.subjectCount = Len(sc[i]),
                            !.marks = ReadMarks(@, sc[i], Len(sc[i]))])]
    /\ file = saveAll(NoFile, students, TRUE)
    /\ out = Report("main", "Loaded", 0, 0)
    /\ deleted = {}
    /\ rec = ZeroStudent
    /\ pc = "menu"

NextStats == showStats \/ exportReport

SpecStats == InitStats /\ [][NextStats]_vars

\* the start of the program on a students.csv that is already there
InitLoad ==
    /\ students = <<>>
    /\ file \in LoadFiles
    /\ out = Report("none", "NotStarted", 0, 0)
    /\ deleted = {}
    /\ rec = ZeroStudent
    /\ pc = "exited"

NextLoad == main

SpecLoad == InitLoad /\ [][NextLoad]_vars

\* one run of the program during which fopen(DATA_FILE, "w") fails:
\* students.csv holds the header and one line and cannot be written
InitDiskFail ==
    /\ file = [exists |-> TRUE, lines |-> <<HeaderLine, LineB>>,
               writable |-> FALSE]
    /\ students = loadAll(file, <<>>)
    /\ out = Report("main", "Loaded", 0, 0)
    /\ deleted = {}
    /\ rec = ZeroStudent
    /\ pc = "menu"

SpecDiskFail == InitDiskFail /\ [][Next]_vars

\* runs of the program that end and start again on the file they left
NextPersist == Next \/ menuExit \/ main

SpecPersist == Init /\ [][NextPersist]_vars

(* ------------------------------ properties ---------------------------- *)

LiveRolls(studs) == {studs[i].roll : i \in 1..Len(studs)}

Reverse(seq) == [i \in 1..Len(seq) |-> seq[Len(seq) + 1 - i]]

\* the scores of a record: the first subjectCount entries of marks[]
Scores(s) == [j \in 1..s.subjectCount |-> s.marks[j]]

RECURSIVE Total(_)
Total(seq) == IF seq = <<>> THEN 0 ELSE Head(seq) + Total(Tail(seq))

\* the grade letter of the mean sum/n by the threshold table
\* (A >= 90 > B >= 75 > C >= 60 > D >= 50 > F), as a character
TableGrade(sum, n) ==
    IF sum >= 90 * n THEN 65
    ELSE IF sum >= 75 * n THEN 66
    ELSE IF sum >= 60 * n THEN 67
    ELSE IF sum >= 50 * n THEN 68
    ELSE 70

Lowered(name) == [i \in 1..Len(name) |-> tolower(name[i])]

\* the sort key of menu choice ch differs between any two records
KeysDistinct(ch, studs) ==
    \A i, j \in 1..Len(studs) :
        i # j =>
            CASE ch \in {1, 2} -> studs[i].roll # studs[j].roll
              [] ch \in {3, 4} -> Lowered(studs[i].name) # Lowered(studs[j].name)
              [] ch \in {5, 6} -> studs[i].average # studs[j].average

\* the fields of a line: the texts between the separators d
RECURSIVE Split(_, _)
Split(s, d) ==
    LET n == TokLen(s, d)
    IN  IF n = Len(s) THEN <<s>>
        ELSE <<SubSeq(s, 1, n)>> \o Split(SubSeq(s, n + 2, Len(s)), d)

\* the six comma-separated fields of a line, its line end removed
Fields(line) ==
    Split(SelectSeq(line, LAMBDA c : c # NL /\ c # CR), COMMA)

\* a data line in the persistence format: six non-empty fields, a
\* subjectCount in 1..MAX_SUBJECTS and as many scores as subjectCount says
WellFormed(line) ==
    LET f == Fields(line)
    IN  /\ Len(f) = 6
        /\ \A k \in 1..6 : f[k] # <<>>
        /\ atoi(f[3]) \in 1..MAX_SUBJECTS
        /\ Len(Split(f[4], SEMI)) = atoi(f[3])

\* the data lines of a file: all its lines but a first line beginning "roll,"
DataLines(f) ==
    IF f.lines # <<>> /\ Len(f.lines[1]) >= 5
         /\ SubSeq(f.lines[1], 1, 5) = HeaderPrefix
    THEN Tail(f.lines) ELSE f.lines

ValidRecord(s) ==
    /\ s.name # <<>>
    /\ s.subjectCount \in 1..MAX_SUBJECTS
    /\ \A j \in 1..s.subjectCount : s.marks[j] \in 0..100

\* C1: when the program exits (saveAll) and is started again (loadAll), the
\* loaded collection is the collection that was saved: same records, same
\* order, every field identical.
RoundTrip ==
    [][pc = "exited" /\ pc' = "menu" => students' = students]_vars

\* C2: the rolls of the live records are pairwise distinct.
RollsDistinct ==
    \A i, j \in 1..Len(students) :
        i # j => students[i].roll # students[j].roll

RollsDistinctWitness ==
    /\ Len(students) = 2
    /\ students[1].roll = 2
    /\ students[2].roll = 3

\* C3 as stated: no add assigns a roll that a deleted record had.
RollNeverReused ==
    [][out'.op = "add" /\ out'.msg = "Added" => out'.roll \notin deleted]_vars

\* C3 as amended: an add assigns the roll of a deleted record only when that
\* roll is greater than every live roll; a freed roll below a live roll is
\* never assigned again.
RollReusedOnlyAboveLive ==
    [][out'.op = "add" /\ out'.msg = "Added" /\ out'.roll \in deleted
         => \A i \in 1..Len(students) : students[i].roll < out'.roll]_vars

RollReusedWitness ==
    /\ out.op = "add"
    /\ out.msg = "Added"
    /\ out.roll \in deleted
    /\ Len(students) = 2
    /\ students[2].roll = out.roll

\* C4: a successful add appends one record whose roll is 1 + the largest
\* live roll (1 for an empty store), so it differs from every live roll;
\* while nothing was deleted the k-th add assigns roll k.
AddAssignsMaxPlusOne ==
    [][out'.op = "add" /\ out'.msg = "Added" =>
         LET r == students'[Len(students')].roll
         IN  /\ Len(students') = Len(students) + 1
             /\ out'.roll = r
             /\ \A i \in 1..Len(students) : students[i].roll < r
             /\ r = 1 \/ \E i \in 1..Len(students) : students[i].roll = r - 1
             /\ deleted = {} => r = Len(students) + 1]_vars

AddAfterDeleteWitness ==
    /\ out.op = "add"
    /\ out.msg = "Added"
    /\ deleted = {1}
    /\ Len(students) = 2
    /\ students[1].roll = 2
    /\ students[2].roll = 3

\* C5: between operations every record's average is sum(scores)/len(scores)
\* of its current scores and its grade is the table's grade of that average.
DerivedConsistent ==
    \A i \in 1..Len(students) :
        LET s == students[i]
            sum == Total(Scores(s))
        IN  /\ s.subjectCount >= 1
            /\ s.average * s.subjectCount = sum * AvgUnit
            /\ s.grade = TableGrade(sum, s.subjectCount)

\* an update has just replaced the scores of a record by 100, 0, 0, the
\* other record still has the single score 100
DerivedAfterUpdateWitness ==
    /\ out.op = "update"
    /\ out.msg = "Updated"
    /\ out.ch = 2
    /\ Len(students) = 2
    /\ \E i, k \in 1..2 :
          /\ students[i].roll = out.roll
          /\ students[i].subjectCount = 3
          /\ students[i].grade = 70
          /\ students[k].subjectCount = 1
          /\ students[k].grade = 65

\* C6: recompute gives average = sum/len and grade A iff average >= 90,
\* B iff 75 <= average < 90, C iff 60 <= average < 75, D iff
\* 50 <= average < 60, F iff average < 50.
GradeThresholds ==
    rec.grade # 0 =>
        LET n == rec.subjectCount
            sum == Total(Scores(rec))
        IN  /\ rec.average * n = sum * AvgUnit
            /\ (rec.grade = 65) = (sum >= 90 * n)
            /\ (rec.grade = 66) = (sum >= 75 * n /\ sum < 90 * n)
            /\ (rec.grade = 67) = (sum >= 60 * n /\ sum < 75 * n)
            /\ (rec.grade = 68) = (sum >= 50 * n /\ sum < 60 * n)
            /\ (rec.grade = 70) = (sum < 50 * n)

\* scores 89, 91: the average is exactly 90.0 and the grade is A
GradeBoundaryWitness ==
    /\ rec.grade = 65
    /\ rec.subjectCount = 2
    /\ rec.marks[1] = 89
    /\ rec.marks[2] = 91

\* C7: a delete given a roll that no live record has reports that there is
\* no such student and changes neither the collection nor the file.
DeleteUnknownRoll ==
    [][out'.op = "delete" /\ out'.roll \notin LiveRolls(students) =>
         /\ out'.msg \in {"NoStudent", "NoRecords"}
         /\ students' = students
         /\ file' = file]_vars

DeleteUnknownRollWitness ==
    /\ out.op = "delete"
    /\ out.msg = "NoStudent"
    /\ Len(students) = 2
    /\ out.roll \notin LiveRolls(students)

\* C8: an add with an empty name, an update of an unknown roll or with an
\* empty new name, changes neither the collection nor the file; a count or
\* score out of range is never stored, so every record in the collection is
\* whole and valid, and only a completed add or delete changes the length.
FailedValidationNoChange ==
    [][/\ (\/ out'.op = "add" /\ out'.msg = "NameEmpty"
           \/ out'.op = "update" /\ out'.roll \notin LiveRolls(students)
           \/ out'.op = "update" /\ out'.msg = "NameUnchanged")
          => students' = students /\ file' = file
       /\ \A i \in 1..Len(students') : ValidRecord(students'[i])
       /\ Len(students') # Len(students)
          => out'.msg \in {"Added", "Deleted"}]_vars

FailedValidationWitness ==
    /\ out.op = "update"
    /\ out.msg = "NoStudent"
    /\ Len(students) = 2
    /\ students[1].subjectCount = 3

\* C9: when the keys are pairwise distinct, a sort directly after a sort by
\* the same key in the opposite direction leaves the exact reverse of what
\* the first sort left.
SortInverseReverses ==
    [][/\ out.op = "sort" /\ out.msg = "Sorted"
       /\ out'.op = "sort" /\ out'.msg = "Sorted"
       /\ Inverse(out.ch, out'.ch)
       /\ KeysDistinct(out'.ch, students)
       => students' = Reverse(students)]_vars

\* name descending directly after name ascending, names "a " and "B"
SortInverseWitness ==
    /\ out.op = "sort"
    /\ out.inv
    /\ out.ch = 4
    /\ Len(students) = 2
    /\ KeysDistinct(4, students)
    /\ students[1].name = <<66>>

\* C10 as stated: a search with the empty query lists every record, in
\* store order.
EmptyQueryListsAll ==
    (out.op = "search" /\ out.msg # "NoRecords" /\ out.q = <<>>)
        => out.rows = students

\* C10 as amended: a search with the empty query is rejected ("Query
\* empty.") and lists no record.
EmptyQueryRejected ==
    (out.op = "search" /\ out.msg # "NoRecords" /\ out.q = <<>>)
        => out.msg = "QueryEmpty" /\ out.rows = <<>>

EmptyQueryWitness ==
    /\ out.op = "search"
    /\ out.msg = "QueryEmpty"
    /\ Len(students) = 2

\* C11: for a non-empty store the topper that statistics and the report's
\* summary name is the record of lowest index whose average is maximal, and
\* the lowest is the record of lowest index whose average is minimal.
TopperLowestEarliest ==
    (out.msg \in {"Stats", "Exported"}) =>
        LET n == Len(students)
            top == out.topIdx + 1
            low == out.lowIdx + 1
        IN  /\ top \in 1..n
            /\ low \in 1..n
            /\ \A j \in 1..n : students[j].average <= students[top].average
            /\ \A j \in 1..(top - 1) :
                  students[j].average < students[top].average
            /\ \A j \in 1..n : students[j].average >= students[low].average
            /\ \A j \in 1..(low - 1) :
                  students[j].average > students[low].average

\* the report of a store whose last two records tie for the lowest average
\* (or, with two records, for both)
TopperTieWitness ==
    /\ out.msg = "Exported"
    /\ Len(students) >= 2
    /\ students[Len(students)].average = students[Len(students) - 1].average
    /\ out.lowIdx < Len(students) - 1

\* C16: for a non-empty store the statistics' count of each grade letter is
\* the number of records with that grade, so the five counts sum to the
\* number of records.
GradeCountsExact ==
    (out.msg = "Stats") =>
        /\ \A k \in 1..5 :
              out.grades[k] =
                Cardinality({i \in 1..Len(students) :
                               students[i].grade = <<65, 66, 67, 68, 70>>[k]})
        /\ out.grades[1] + out.grades[2] + out.grades[3] + out.grades[4]
              + out.grades[5] = Len(students)

\* the store [85,90,78; 40,45,50]: A 0, B 1, C 0, D 0, F 1
GradeCountsWitness ==
    /\ out.msg = "Stats"
    /\ Len(students) = 2
    /\ Scores(students[1]) = <<85, 90, 78>>
    /\ Scores(students[2]) = <<40, 45, 50>>
    /\ out.grades = <<0, 1, 0, 0, 1>>
    /\ out.topIdx = 0
    /\ out.lowIdx = 1

\* C12: after every completed add, update, delete and sort whose write
\* succeeds, and after the exit of the program, students.csv holds the
\* header line and then one line per live record, the serialization of
\* that record, in the order of the collection.
FileIsStore ==
    (out.msg \in {"Added", "Updated", "Deleted", "Sorted", "Saved"}
       /\ file.writable) =>
        /\ file.exists
        /\ Len(file.lines) = Len(students) + 1
        /\ file.lines[1] = HeaderLine
        /\ \A i \in 1..Len(students) :
              file.lines[i + 1] = FmtStudent(students[i])

\* a sort has just put roll 2 before roll 1, and the file has them so
FileAfterSortWitness ==
    /\ out.msg = "Sorted"
    /\ Len(students) = 2
    /\ students[1].roll = 2
    /\ students[2].roll = 1
    /\ SubSeq(file.lines[2], 1, 2) = <<50, COMMA>>
    /\ SubSeq(file.lines[3], 1, 2) = <<49, COMMA>>

\* C13: a completed delete of the roll of the record at index i removes
\* exactly that record: the collection is one shorter, the records before i
\* are as they were and each record after i is one position to the left.
DeleteRemovesExactlyOne ==
    [][out'.op = "delete" /\ out'.msg = "Deleted" =>
         \E i \in 1..Len(students) :
            /\ students[i].roll = out'.roll
            /\ Len(students') = Len(students) - 1
            /\ \A j \in 1..(i - 1) : students'[j] = students[j]
            /\ \A j \in i..Len(students') : students'[j] = students[j + 1]]_vars

\* the first of two records has just been deleted: the second is now first
DeleteFirstWitness ==
    /\ out.op = "delete"
    /\ out.msg = "Deleted"
    /\ out.roll = 1
    /\ Len(students) = 1
    /\ students[1].roll = 2

\* C14: loading yields one record per well-formed data line, in file order,
\* and none for a malformed line, whatever lines come before or after; a
\* missing file yields the empty store.
LoadsWellFormedLines ==
    [][pc = "exited" /\ pc' = "menu" =>
         LET good == SelectSeq(DataLines(file), WellFormed)
         IN  /\ Len(students') = Min(Len(good), MAX_STUDENTS)
             /\ \A i \in 1..Len(students') :
                   /\ students'[i].roll = atoi(Fields(good[i])[1])
                   /\ students'[i].name = Fields(good[i])[2]]_vars

\* C15: the collection never holds more than MAX_STUDENTS records, and an
\* add attempted on a full collection reports that the limit is reached and
\* changes neither the collection nor the file.
CapacityRespected ==
    [][/\ Len(students') <= MAX_STUDENTS
       /\ (out'.op = "add" /\ Len(students) >= MAX_STUDENTS) =>
             /\ out'.msg = "LimitReached"
             /\ students' = students
             /\ file' = file]_vars

CapacityWitness ==
    /\ out.op = "add"
    /\ out.msg = "LimitReached"
    /\ Len(students) = MAX_STUDENTS

\* C17: when the write of a completed add, update, delete or sort fails,
\* the file keeps the content it had and the collection keeps the change:
\* the added record is there, the deleted one is gone, the sorted order
\* stands, the updated record is still in its place.
WriteFailureKeepsMutation ==
    [][(~file.writable
          /\ out'.msg \in {"Added", "Updated", "Deleted", "Sorted"}) =>
         LET n == Len(students)
         IN  /\ file' = file
             /\ out'.msg = "Added" =>
                   /\ Len(students') = n + 1
                   /\ SubSeq(students', 1, n) = students
                   /\ students'[n + 1].roll = out'.roll
             /\ out'.msg = "Deleted" =>
                   /\ Len(students') = n - 1
                   /\ out'.roll \in LiveRolls(students)
                   /\ out'.roll \notin LiveRolls(students')
             /\ out'.msg = "Sorted" =>
                   /\ Len(students') = n
                   /\ \A i \in 1..n : \E j \in 1..n : students'[j] = students[i]
                   /\ \A i, j \in 1..n :
                         i < j => cmp(out'.ch, students'[i], students'[j]) <= 0
             /\ out'.msg = "Updated" =>
                   /\ Len(students') = n
                   /\ \A i \in 1..n :
                         /\ students'[i].roll = students[i].roll
                         /\ students[i].roll # out'.roll
                              => students'[i] = students[i]
                         /\ ValidRecord(students'[i])]_vars

\* a sort has put roll 2 before roll 1 while the file, which could not be
\* written, still holds the one line it held at the start
WriteFailureWitness ==
    /\ ~file.writable
    /\ out.msg = "Sorted"
    /\ Len(students) = 2
    /\ students[1].roll = 2
    /\ students[2].roll = 1
    /\ file.lines = <<HeaderLine, LineB>>

\* C18: no stored name is empty and none contains a comma.
NamesCleanNonEmpty ==
    \A i \in 1..Len(students) :
        /\ students[i].name # <<>>
        /\ \A k \in 1..Len(students[i].name) : students[i].name[k] # COMMA

\* the name "a," was typed at the update prompt and "a " is stored
NameSanitizedWitness ==
    /\ out.op = "update"
    /\ out.msg = "Updated"
    /\ out.ch = 1
    /\ \E i \in 1..Len(students) :
          /\ students[i].roll = out.roll
          /\ students[i].name = <<97, SPACE>>

\* C19: a completed update of roll r leaves the length of the collection,
\* the position and the roll of the record with roll r and every other
\* record as they were; an update of the name leaves that record's
\* subjectCount, scores, average and grade as they were.
UpdateChangesOnlyTarget ==
    [][out'.op = "update" /\ out'.msg = "Updated" =>
         /\ Len(students') = Len(students)
         /\ \E i \in 1..Len(students) :
               /\ students[i].roll = out'.roll
               /\ students'[i].roll = out'.roll
               /\ \A j \in 1..Len(students) :
                     j # i => students'[j] = students[j]
               /\ out'.ch = 1 =>
                     /\ students'[i].subjectCount = students[i].subjectCount
                     /\ students'[i].marks = students[i].marks
                     /\ students'[i].average = students[i].average
                     /\ students'[i].grade = students[i].grade]_vars

\* the name of the second of two records has just been updated
UpdateSecondWitness ==
    /\ out.op = "update"
    /\ out.msg = "Updated"
    /\ out.ch = 1
    /\ Len(students) = 2
    /\ students[2].roll = out.roll
    /\ students[1].name # students[2].name

====
